---- MODULE Spec2Model ----
(***************************************************************************)
(* Model of meet-bot (src/main.py): the Mattermost slash-command webhook   *)
(* that creates Google Meet links through the Calendar API.                *)
(*                                                                         *)
(* Python strings that the code inspects character by character (command   *)
(* text, titles, tokens, names) are sequences of one-character strings.    *)
(* Python's None for such a value is the one-element sequence None, which  *)
(* no character sequence equals.  Times are milliseconds on the wall       *)
(* clock.                                                                  *)
(***************************************************************************)
EXTENDS Integers, Sequences, FiniteSets, TLC

VARIABLES
    meet_service,      \* module global meet_service: TRUE = adapter built, FALSE = None
    mattermost_token,  \* CONFIG['mattermost_token']
    clock,             \* wall clock, ms
    pc,                \* per worker: where handle_meet_command / handle_help_command is
    req,               \* per worker: the inbound HTTP request being served
    args,              \* per worker: the args dict of handle_meet_command
    event,             \* per worker: the event body handed to events().insert()
    calls,             \* per worker: executed events().insert() calls for the request
    remote,            \* per worker: what events().insert(...).execute() did
    meet_url,          \* per worker: meet_url of handle_meet_command
    resp,              \* per worker: the HTTP response returned
    parse_text,        \* argument of a direct call of parse_slash_command_args
    parse_result       \* its return value

vars == <<meet_service, mattermost_token, clock, pc, req, args, event, calls,
          remote, meet_url, resp, parse_text, parse_result>>

-----------------------------------------------------------------------------
(* Bounds *)

\* Number of fragments concatenated into a command text of SpecParse.
MaxFrags == 3

\* Milliseconds the clock may advance after boot.
MaxElapsed == 2

-----------------------------------------------------------------------------
(* Python values *)

None == <<"<None>">>
NoneStr == "<None>"

\* Python truthiness of an Optional[str]
Truthy(s) == s # None /\ s # <<>>

S_title_eq == <<"t", "i", "t", "l", "e", "=">>
S_duration_eq == <<"d", "u", "r", "a", "t", "i", "o", "n", "=">>
S_quick == <<"q", "u", "i", "c", "k">>
S_help == <<"h", "e", "l", "p">>
S_Quick_Meeting == <<"Q", "u", "i", "c", "k", " ", "M", "e", "e", "t", "i", "n", "g">>
S_Meeting_suffix == <<" ", "M", "e", "e", "t", "i", "n", "g">>
S_Meeting_by == <<"M", "e", "e", "t", "i", "n", "g", " ", "b", "y", " ">>
S_directmessage == <<"d", "i", "r", "e", "c", "t", "m", "e", "s", "s", "a", "g", "e">>
S_Direct_Message == <<"D", "i", "r", "e", "c", "t", " ", "M", "e", "s", "s", "a", "g", "e">>
S_Unknown_User == <<"U", "n", "k", "n", "o", "w", "n", " ", "U", "s", "e", "r">>

Whitespace == {" ", "\t", "\n"}
Quotes == {"\"", "'"}
Digits == <<"0", "1", "2", "3", "4", "5", "6", "7", "8", "9">>
DigitSet == {Digits[i] : i \in 1..10}
DigitValue(c) == (CHOOSE i \in 1..10 : Digits[i] = c) - 1

UpperToLower ==
    [A |-> "a", B |-> "b", C |-> "c", D |-> "d", E |-> "e", F |-> "f", G |-> "g",
     H |-> "h", I |-> "i", J |-> "j", K |-> "k", L |-> "l", M |-> "m", N |-> "n",
     O |-> "o", P |-> "p", Q |-> "q", R |-> "r", S |-> "s", T |-> "t", U |-> "u",
     V |-> "v", W |-> "w", X |-> "x", Y |-> "y", Z |-> "z"]

\* str.lower()
lower(s) ==
    [i \in 1..Len(s) |-> IF s[i] \in DOMAIN UpperToLower THEN UpperToLower[s[i]] ELSE s[i]]

\* str.strip()
strip(s) ==
    LET keep == {i \in 1..Len(s) : s[i] \notin Whitespace}
    IN  IF keep = {} THEN <<>>
        ELSE LET lo == CHOOSE i \in keep : \A j \in keep : i <= j
                 hi == CHOOSE i \in keep : \A j \in keep : j <= i
             IN  SubSeq(s, lo, hi)

\* the literal lit occurs in s at index i
LitAt(s, i, lit) ==
    /\ i + Len(lit) - 1 <= Len(s)
    /\ SubSeq(s, i, i + Len(lit) - 1) = lit

Least(S) == CHOOSE i \in S : \A j \in S : i <= j

-----------------------------------------------------------------------------
(* parse_slash_command_args *)

DEFAULT_DURATION == 60
QUICK_DURATION == 30
INSTANT_MINUTES == 5

\* positions where r'title=["\']([^"\']*)["\']' matches: the literal, an opening
\* quote, and some quote character later on (the class excludes both quotes,
\* so the match closes at the first one)
TitleMatchStarts(s) ==
    {i \in 1..Len(s) :
        /\ LitAt(s, i, S_title_eq)
        /\ i + 6 <= Len(s)
        /\ s[i + 6] \in Quotes
        /\ \E j \in (i + 7)..Len(s) : s[j] \in Quotes}

\* re.search(r'title=["\']([^"\']*)["\']', text): group(1) of the first match, or None
title_match(s) ==
    IF TitleMatchStarts(s) = {} THEN None
    ELSE LET i == Least(TitleMatchStarts(s))
             close == Least({j \in (i + 7)..Len(s) : s[j] \in Quotes})
         IN  SubSeq(s, i + 7, close - 1)

\* positions where r'duration=(\d+)' matches
DurationMatchStarts(s) ==
    {i \in 1..Len(s) :
        /\ LitAt(s, i, S_duration_eq)
        /\ i + 9 <= Len(s)
        /\ s[i + 9] \in DigitSet}

\* last index of the greedy digit run that starts at index i
DigitRunEnd(s, i) ==
    Least({j \in i..Len(s) : j = Len(s) \/ s[j + 1] \notin DigitSet})

\* re.search(r'duration=(\d+)', text): group(1) of the first match, or None
duration_match(s) ==
    IF DurationMatchStarts(s) = {} THEN None
    ELSE LET i == Least(DurationMatchStarts(s))
         IN  SubSeq(s, i + 9, DigitRunEnd(s, i + 9))

\* int() of a digit string
RECURSIVE int(_)
int(d) ==
    IF d = <<>> THEN 0
    ELSE 10 * int(SubSeq(d, 1, Len(d) - 1)) + DigitValue(d[Len(d)])

\* re.sub(r'duration=\d+', '', text), scanning from index i
RECURSIVE sub_duration_from(_, _)
sub_duration_from(s, i) ==
    IF i > Len(s) THEN <<>>
    ELSE IF i \in DurationMatchStarts(s)
         THEN sub_duration_from(s, DigitRunEnd(s, i + 9) + 1)
         ELSE <<s[i]>> \o sub_duration_from(s, i + 1)

sub_duration(s) == sub_duration_from(s, 1)

\* the comparison without .lower()
IsQuickNoLower(text) == strip(text) = S_quick
\* `if text.strip().lower() == 'quick':`
IsQuick(text) == lower(strip(text)) = S_quick

parse_slash_command_args(text) ==
    LET defaults == [title |-> None, duration |-> DEFAULT_DURATION, quick |-> FALSE]
    IN  IF strip(text) = <<>> THEN defaults
        ELSE IF IsQuick(text)
             THEN [title |-> S_Quick_Meeting, duration |-> QUICK_DURATION, quick |-> TRUE]
        ELSE LET tm == title_match(text)
                 dm == duration_match(text)
                 a1 == IF tm # None THEN [defaults EXCEPT !.title = tm] ELSE defaults
                 a2 == IF dm # None THEN [a1 EXCEPT !.duration = int(dm)] ELSE a1
                 clean_text == strip(sub_duration(text))
             IN  IF ~Truthy(a2.title) /\ strip(text) # <<>> /\ dm = None
                    /\ clean_text # <<>>
                 THEN [a2 EXCEPT !.title = clean_text]
                 ELSE a2

\* no args dict yet
NoArgs == [title |-> None, duration |-> -1, quick |-> FALSE]

-----------------------------------------------------------------------------
(* Command texts of SpecParse: every concatenation of at most MaxFrags fragments *)

Frags ==
    {S_title_eq, S_duration_eq, S_quick, <<"Q", "u", "i", "C", "K">>,
     <<"\"">>, <<"'">>, <<"0">>, <<"7">>, <<"x">>, <<" ">>,
     S_title_eq \o <<"\"", "x", "\"">>}

RECURSIVE TextsUpTo(_)
TextsUpTo(n) ==
    IF n = 0 THEN {<<>>}
    ELSE LET shorter == TextsUpTo(n - 1)
         IN  shorter \cup {t \o f : t \in shorter, f \in Frags}

ParseTexts == TextsUpTo(MaxFrags)

-----------------------------------------------------------------------------
(* Requests, responses and the remote calendar service *)

Workers == {"w1", "w2"}

FORM == "application/x-www-form-urlencoded"
ContentTypes == {FORM, "application/json"}

S_abc == <<"a", "b", "c">>
S_dev == <<"d", "e", "v">>
S_al == <<"a", "l">>

\* token form field: absent, empty, the configured one, a prefix of it
Tokens == {None, <<>>, S_abc, <<"a", "b">>}
\* MATTERMOST_TOKEN: unset, set to the empty string, set
ConfigTokens == {None, <<>>, S_abc}

HandlerTexts ==
    {None, <<>>, S_help, <<" ", "H", "e", "L", "P">>, S_quick, <<"x">>,
     S_duration_eq \o <<"0">>, S_duration_eq \o <<"7">>,
     S_title_eq \o <<"\"", "x", "\"">>, S_title_eq \o <<"\"", "\"">>,
     S_title_eq \o <<"\"", "\"", " ">> \o S_duration_eq \o <<"7">>}

Channels == {None, <<>>, S_directmessage, S_dev}
Users == {None, S_al}

\* POST /meet with every combination of the form fields
MeetRequests ==
    [route : {"/meet"}, content_type : ContentTypes, token : Tokens,
     text : HandlerTexts, user_name : Users, channel_name : Channels]

\* POST /meet-help: the handler reads nothing of the request
HelpRequests ==
    [route : {"/meet-help"}, content_type : ContentTypes, token : {None},
     text : {None}, user_name : {None}, channel_name : {None}]

Requests == MeetRequests \cup HelpRequests

\* requests that pass both checks when the configured token is S_abc
ValidRequests ==
    [route : {"/meet", "/meet-help"}, content_type : {FORM}, token : {S_abc},
     text : {<<>>, S_quick}, user_name : {S_al}, channel_name : {S_dev}]

NoRequest ==
    [route |-> NoneStr, content_type |-> NoneStr, token |-> None, text |-> None,
     user_name |-> None, channel_name |-> None]

\* dict.get(key, default) on the form data
get(v, default) == IF v = None THEN default ELSE v

NoEvent == [summary |-> None, start |-> 0, end |-> 0, requestId |-> <<>>]

NoResponse ==
    [status |-> 0, response_type |-> NoneStr, text |-> NoneStr, title |-> None,
     link |-> NoneStr, duration |-> NoneStr]

VIDEO_URI == "https://meet.google.com/abc-defg-hij"
HANGOUT_LINK == "https://meet.google.com/lookup/xyz"

EntryPoint(type, uri) == [entryPointType |-> type, uri |-> uri]

\* the 'entryPoints' lists a created event may carry
EntryPointLists ==
    {<<>>,
     <<EntryPoint("video", VIDEO_URI)>>,
     <<EntryPoint("phone", "tel:+1"), EntryPoint("video", VIDEO_URI)>>,
     <<EntryPoint("phone", "tel:+1")>>,
     <<EntryPoint("video", NoneStr)>>,
     <<EntryPoint("video", "")>>}

\* what events().insert(...).execute() can do: return a created event, raise
\* HttpError with a status, or raise another exception (network failure)
RemoteOutcomes ==
    [kind : {"created"}, status : {200}, entryPoints : EntryPointLists,
     hangoutLink : {NoneStr, "", HANGOUT_LINK}]
    \cup [kind : {"HttpError"}, status : {403, 404, 500}, entryPoints : {<<>>},
          hangoutLink : {NoneStr}]
    \cup [kind : {"Exception"}, status : {0}, entryPoints : {<<>>},
          hangoutLink : {NoneStr}]

NoRemote == [kind |-> NoneStr, status |-> 0, entryPoints |-> <<>>, hangoutLink |-> NoneStr]

\* Python truthiness of an Optional[str] held as a TLA+ string
TruthyStr(u) == u # NoneStr /\ u # ""

\* a Python call's outcome: a returned value or a raised exception
Return(v) == [raised |-> FALSE, value |-> v]
Raise == [raised |-> TRUE, value |-> NoneStr]

-----------------------------------------------------------------------------
(* GoogleMeetService *)

BootClock == 10000 - 2

\* f'meet-{int(start_time.timestamp())}-{int(time.time() * 1000) % 10000}'
request_id(start_time, now) == <<start_time \div 1000, now % 10000>>

\* the event body built by _create_calendar_event_with_meet
event_body(title, start_time, end_time, now) ==
    [summary |-> title, start |-> start_time, end |-> end_time,
     requestId |-> request_id(start_time, now)]

\* create_instant_meet / create_scheduled_meet up to the remote call
instant_event(title, start_time, now) ==
    event_body(title, start_time, start_time + INSTANT_MINUTES * 60000, now)

scheduled_event(title, duration_minutes, start_time, now) ==
    event_body(title, start_time, start_time + duration_minutes * 60000, now)

\* the link extraction after a successful insert: the first entry point of type
\* 'video' decides (its uri, present or not), else the event's hangoutLink
extract_link(created_event) ==
    LET eps == created_event.entryPoints
        videos == {i \in 1..Len(eps) : eps[i].entryPointType = "video"}
    IN  IF videos # {} THEN eps[Least(videos)].uri
        ELSE IF TruthyStr(created_event.hangoutLink) THEN created_event.hangoutLink
        ELSE NoneStr

\* _create_calendar_event_with_meet from the remote call on: both except
\* clauses return None
create_calendar_event_with_meet(outcome) ==
    CASE outcome.kind = "created" -> Return(extract_link(outcome))
      [] outcome.kind = "HttpError" -> Return(NoneStr)
      [] OTHER -> Return(NoneStr)

\* create_instant_meet / create_scheduled_meet: try: return inner; except: None
create_meet(outcome) ==
    LET r == create_calendar_event_with_meet(outcome)
    IN  IF r.raised THEN Return(NoneStr) ELSE r

-----------------------------------------------------------------------------
(* verify_mattermost_token *)

\* a gate that lets a missing or empty token through
verify_accepts_empty(token) ==
    IF ~Truthy(mattermost_token) THEN TRUE
    ELSE ~Truthy(token) \/ token = mattermost_token

\* with no token configured every request is accepted
verify_mattermost_token(token) ==
    IF ~Truthy(mattermost_token) THEN TRUE
    ELSE token = mattermost_token

-----------------------------------------------------------------------------
(* Responses of the two handlers *)

Plain(status, text) == [NoResponse EXCEPT !.status = status, !.text = text]

Ephemeral(status, text) ==
    [NoResponse EXCEPT !.status = status, !.response_type = "ephemeral", !.text = text]

InvalidFormat == Plain(400, "Invalid request format")
Unauthorized == Plain(401, "Unauthorized")
Unavailable == Ephemeral(200, "Google Meet service is not available")
Failed == Ephemeral(200, "Failed to create Google Meet link")
Help == Ephemeral(200, "Google Meet Bot Help")
InternalError == Ephemeral(500, "An error occurred")

Created(a, url) ==
    [status |-> 200, response_type |-> "in_channel", text |-> "Google Meet Created",
     title |-> a.title, link |-> url,
     duration |-> IF a.quick THEN NoneStr ELSE ToString(a.duration)]

\* a handler without the availability check
service_check_skipped == FALSE

\* `if not meet_service:`
service_missing == ~meet_service

\* a handler that takes any adapter result for a link
link_always(url) == TRUE

\* `if meet_url:`
link_present(url) == TruthyStr(url)

\* a handler that calls the adapter again when it got no link
stage_after_retry(url) == IF TruthyStr(url) THEN "Responded" ELSE "TitleResolved"

\* where the handler is once the adapter has returned: both branches return
stage_after_provider(url) == "Responded"

-----------------------------------------------------------------------------
(* handle_meet_command, one action per stage, and handle_help_command *)

Receive(w, R) ==
    /\ pc[w] = "Idle"
    /\ \E r \in R : req' = [req EXCEPT ![w] = r]
    /\ pc' = [pc EXCEPT ![w] = "Received"]
    /\ UNCHANGED <<meet_service, mattermost_token, clock, args, event, calls,
                   remote, meet_url, resp, parse_text, parse_result>>

Respond(w, r) ==
    /\ resp' = [resp EXCEPT ![w] = r]
    /\ pc' = [pc EXCEPT ![w] = "Responded"]

\* a handler whose content-type check leads past the token check
CheckContentTypeSkipsToken(w) ==
    /\ pc[w] = "Received"
    /\ req[w].route = "/meet"
    /\ IF req[w].content_type # FORM
       THEN Respond(w, InvalidFormat)
       ELSE pc' = [pc EXCEPT ![w] = "TokenVerified"] /\ UNCHANGED resp
    /\ UNCHANGED <<meet_service, mattermost_token, clock, req, args, event, calls,
                   remote, meet_url, parse_text, parse_result>>

CheckContentType(w) ==
    /\ pc[w] = "Received"
    /\ req[w].route = "/meet"
    /\ IF req[w].content_type # FORM
       THEN Respond(w, InvalidFormat)
       ELSE pc' = [pc EXCEPT ![w] = "ContentTypeChecked"] /\ UNCHANGED resp
    /\ UNCHANGED <<meet_service, mattermost_token, clock, req, args, event, calls,
                   remote, meet_url, parse_text, parse_result>>

VerifyToken(w) ==
    /\ pc[w] = "ContentTypeChecked"
    /\ IF ~verify_mattermost_token(req[w].token)
       THEN Respond(w, Unauthorized)
       ELSE pc' = [pc EXCEPT ![w] = "TokenVerified"] /\ UNCHANGED resp
    /\ UNCHANGED <<meet_service, mattermost_token, clock, req, args, event, calls,
                   remote, meet_url, parse_text, parse_result>>

ServiceUnavailable(w) ==
    /\ pc[w] = "TokenVerified"
    /\ service_missing
    /\ Respond(w, Unavailable)
    /\ UNCHANGED <<meet_service, mattermost_token, clock, req, args, event, calls,
                   remote, meet_url, parse_text, parse_result>>

Parse(w) ==
    /\ pc[w] = "TokenVerified"
    /\ ~service_missing
    /\ LET command_text == strip(get(req[w].text, <<>>))
       IN  args' = [args EXCEPT ![w] = parse_slash_command_args(command_text)]
    /\ pc' = [pc EXCEPT ![w] = "Parsed"]
    /\ UNCHANGED <<meet_service, mattermost_token, clock, req, event, calls,
                   remote, meet_url, resp, parse_text, parse_result>>

\* the title the handler settles on
resolve_title(a, channel_name, user_name) ==
    IF Truthy(a.title) THEN a.title
    ELSE IF channel_name # <<>> /\ channel_name # S_directmessage
         THEN channel_name \o S_Meeting_suffix
         ELSE S_Meeting_by \o user_name

ResolveTitle(w) ==
    /\ pc[w] = "Parsed"
    /\ LET user_name == get(req[w].user_name, S_Unknown_User)
           channel_name == get(req[w].channel_name, S_Direct_Message)
       IN  args' = [args EXCEPT
                      ![w].title = resolve_title(args[w], channel_name, user_name)]
    /\ pc' = [pc EXCEPT ![w] = "TitleResolved"]
    /\ UNCHANGED <<meet_service, mattermost_token, clock, req, event, calls,
                   remote, meet_url, resp, parse_text, parse_result>>

\* the adapter reads the clock twice (utcnow() for start_time, time.time() for
\* the request id) and sends the insert; lag is the time between the two reads
InvokeProvider(w) ==
    /\ pc[w] = "TitleResolved"
    /\ \E lag \in 0..1 :
         /\ clock + lag <= BootClock + MaxElapsed
         /\ clock' = clock + lag
         /\ event' = [event EXCEPT ![w] =
                        IF args[w].quick
                        THEN instant_event(args[w].title, clock, clock + lag)
                        ELSE scheduled_event(args[w].title, args[w].duration,
                                             clock, clock + lag)]
    /\ calls' = [calls EXCEPT ![w] = @ + 1]
    /\ pc' = [pc EXCEPT ![w] = "ProviderInvoked"]
    /\ UNCHANGED <<meet_service, mattermost_token, req, args, remote, meet_url,
                   resp, parse_text, parse_result>>

\* the remote call ends, the adapter returns and the handler answers
ProviderReturn(w) ==
    /\ pc[w] = "ProviderInvoked"
    /\ \E outcome \in RemoteOutcomes :
         LET r == create_meet(outcome)
         IN  /\ remote' = [remote EXCEPT ![w] = outcome]
             /\ meet_url' = [meet_url EXCEPT ![w] = r.value]
             /\ pc' = [pc EXCEPT ![w] = stage_after_provider(r.value)]
             /\ resp' = [resp EXCEPT ![w] =
                           IF r.raised THEN InternalError
                           ELSE IF link_present(r.value) THEN Created(args[w], r.value)
                           ELSE Failed]
    /\ UNCHANGED <<meet_service, mattermost_token, clock, req, args, event, calls,
                   parse_text, parse_result>>

HelpCommand(w) ==
    /\ pc[w] = "Received"
    /\ req[w].route = "/meet-help"
    /\ Respond(w, Help)
    /\ UNCHANGED <<meet_service, mattermost_token, clock, req, args, event, calls,
                   remote, meet_url, parse_text, parse_result>>

\* the response is sent and the worker thread is free for the next request
Finish(w) ==
    /\ pc[w] = "Responded"
    /\ pc' = [pc EXCEPT ![w] = "Idle"]
    /\ req' = [req EXCEPT ![w] = NoRequest]
    /\ args' = [args EXCEPT ![w] = NoArgs]
    /\ event' = [event EXCEPT ![w] = NoEvent]
    /\ calls' = [calls EXCEPT ![w] = 0]
    /\ remote' = [remote EXCEPT ![w] = NoRemote]
    /\ meet_url' = [meet_url EXCEPT ![w] = NoneStr]
    /\ resp' = [resp EXCEPT ![w] = NoResponse]
    /\ UNCHANGED <<meet_service, mattermost_token, clock, parse_text, parse_result>>

Tick ==
    /\ clock < BootClock + MaxElapsed
    /\ clock' = clock + 1
    /\ UNCHANGED <<meet_service, mattermost_token, pc, req, args, event, calls,
                   remote, meet_url, resp, parse_text, parse_result>>

\* a direct call of the parser
CallParse ==
    /\ parse_result = NoArgs
    /\ parse_result' = parse_slash_command_args(parse_text)
    /\ UNCHANGED <<meet_service, mattermost_token, clock, pc, req, args, event,
                   calls, remote, meet_url, resp, parse_text>>

-----------------------------------------------------------------------------
(* Specifications *)

Quiet ==
    /\ pc = [w \in Workers |-> "Idle"]
    /\ req = [w \in Workers |-> NoRequest]
    /\ args = [w \in Workers |-> NoArgs]
    /\ event = [w \in Workers |-> NoEvent]
    /\ calls = [w \in Workers |-> 0]
    /\ remote = [w \in Workers |-> NoRemote]
    /\ meet_url = [w \in Workers |-> NoneStr]
    /\ resp = [w \in Workers |-> NoResponse]

\* The server after start-up: the adapter was built or not, the token is
\* configured or not.
Init ==
    /\ meet_service \in BOOLEAN
    /\ mattermost_token \in ConfigTokens
    /\ clock = BootClock
    /\ Quiet
    /\ parse_text = <<>>
    /\ parse_result = NoArgs

Handle(w) ==
    \/ CheckContentType(w)
    \/ VerifyToken(w)
    \/ ServiceUnavailable(w)
    \/ Parse(w)
    \/ ResolveTitle(w)
    \/ InvokeProvider(w)
    \/ ProviderReturn(w)
    \/ HelpCommand(w)
    \/ Finish(w)

\* Requests of every shape, served one at a time.
Next ==
    \/ \E w \in Workers :
         \/ (\A v \in Workers : pc[v] = "Idle") /\ Receive(w, Requests)
         \/ Handle(w)
    \/ Tick

Spec == Init /\ [][Next]_vars

\* Well-formed requests served by concurrent worker threads (threaded=True).
InitConc ==
    /\ meet_service \in BOOLEAN
    /\ mattermost_token = S_abc
    /\ clock = BootClock
    /\ Quiet
    /\ parse_text = <<>>
    /\ parse_result = NoArgs

NextConc ==
    \/ \E w \in Workers :
         \/ Receive(w, ValidRequests)
         \/ Handle(w)
    \/ Tick

SpecConc == InitConc /\ [][NextConc]_vars

\* parse_slash_command_args applied to every command text of ParseTexts.
InitParse ==
    /\ meet_service = TRUE
    /\ mattermost_token = None
    /\ clock = BootClock
    /\ Quiet
    /\ parse_text \in ParseTexts
    /\ parse_result = NoArgs

NextParse == CallParse

SpecParse == InitParse /\ [][NextParse]_vars

-----------------------------------------------------------------------------
(* Vocabulary of the properties *)

\* the command text the handler works on
CommandText(w) == get(req[w].text, <<>>)

\* the request of worker w is a POST /meet that got past both checks
PassedChecks(w) ==
    /\ req[w].route = "/meet"
    /\ \/ pc[w] \in {"TokenVerified", "Parsed", "TitleResolved", "ProviderInvoked"}
       \/ pc[w] = "Responded" /\ resp[w].status \notin {400, 401}

\* t is the word, in any mix of cases, between leading and trailing whitespace
Spelled(t, word) ==
    \E a \in 0..Len(t) :
        /\ Len(t) >= a + Len(word)
        /\ \A i \in 1..a : t[i] \in Whitespace
        /\ \A i \in (a + Len(word) + 1)..Len(t) : t[i] \in Whitespace
        /\ \A k \in 1..Len(word) :
              \/ t[a + k] = word[k]
              \/ t[a + k] \in DOMAIN UpperToLower /\ UpperToLower[t[a + k]] = word[k]

Blank(t) == \A i \in 1..Len(t) : t[i] \in Whitespace

-----------------------------------------------------------------------------
(* C1 *)

\* C1: a POST /meet that passed the content-type and token checks and whose
\* text is "help" (trimmed, any case) is answered with the static help message,
\* without the parser's business path and without a provider call, whether or
\* not the provider initialized.
C1_HelpBypassesBusinessLogic ==
    \A w \in Workers :
        PassedChecks(w) /\ Spelled(CommandText(w), S_help) =>
            /\ calls[w] = 0
            /\ event[w] = NoEvent
            /\ pc[w] = "Responded" => resp[w] = Help

-----------------------------------------------------------------------------
(* C2 *)

\* the auth gate has decided on the request of worker w
GateDecided(w) ==
    /\ req[w].route = "/meet"
    /\ \/ pc[w] \in {"TokenVerified", "Parsed", "TitleResolved", "ProviderInvoked"}
       \/ pc[w] = "Responded" /\ resp[w] # InvalidFormat

\* C2: with an expected token configured, the gate accepts a request iff its
\* token equals the expected one exactly; a rejected request is answered 401
\* "Unauthorized" and sees neither argument parsing nor a provider call.
C2_AuthGate ==
    \A w \in Workers :
        Truthy(mattermost_token) /\ GateDecided(w) =>
            IF req[w].token = mattermost_token
            THEN resp[w] # Unauthorized
            ELSE /\ pc[w] = "Responded"
                 /\ resp[w] = Unauthorized
                 /\ args[w] = NoArgs
                 /\ calls[w] = 0
                 /\ event[w] = NoEvent

C2_Witness ==
    \E w \in Workers :
        /\ Truthy(mattermost_token)
        /\ req[w].route = "/meet"
        /\ req[w].token = <<>>
        /\ pc[w] = "Responded"
        /\ resp[w] = Unauthorized

-----------------------------------------------------------------------------
(* C3 *)

\* C3: when the adapter failed to initialize, every request served afterwards
\* that passes both checks and is not "help" gets the fixed "service
\* unavailable" ephemeral response, and no remote call is ever attempted.
C3_UnavailableDegrades ==
    ~meet_service =>
        \A w \in Workers :
            /\ calls[w] = 0
            /\ event[w] = NoEvent
            /\ pc[w] \notin {"Parsed", "TitleResolved", "ProviderInvoked"}
            /\ PassedChecks(w) /\ ~Spelled(CommandText(w), S_help)
                  /\ pc[w] = "Responded"
               => resp[w] = Unavailable

C3_Witness ==
    \E w \in Workers :
        /\ ~meet_service
        /\ PassedChecks(w)
        /\ CommandText(w) = S_quick
        /\ pc[w] = "Responded"
        /\ resp[w] = Unavailable

-----------------------------------------------------------------------------
(* C4 *)

\* the remote call failed or its event carries no meeting link
RemoteFailure(o) ==
    \/ o.kind \in {"HttpError", "Exception"}
    \/ /\ o.kind = "created"
       /\ \A i \in 1..Len(o.entryPoints) :
             ~(o.entryPoints[i].entryPointType = "video"
               /\ TruthyStr(o.entryPoints[i].uri))
       /\ ~TruthyStr(o.hangoutLink)

\* C4: after any remote failure (authorization, not found, network, or an
\* event without a meeting link) the adapter returns no URL without raising,
\* and the handler answers "ephemeral" with the one generic failure message;
\* "in_channel" is answered only when the provider call returned a URL.
C4_FailuresFoldToEphemeral ==
    \A w \in Workers :
        pc[w] = "Responded" /\ calls[w] = 1 =>
            /\ resp[w] # InternalError
            /\ RemoteFailure(remote[w]) =>
                  /\ ~TruthyStr(meet_url[w])
                  /\ resp[w] = Failed
            /\ resp[w].response_type = "in_channel" =>
                  /\ remote[w].kind = "created"
                  /\ TruthyStr(meet_url[w])
                  /\ resp[w].link = meet_url[w]

C4_Witness ==
    \E w \in Workers :
        /\ pc[w] = "Responded"
        /\ calls[w] = 1
        /\ remote[w].kind = "HttpError"
        /\ remote[w].status = 403
        /\ resp[w] = Failed

-----------------------------------------------------------------------------
(* C5 *)

\* C5: a request causes at most one event-creation call, a failed call is not
\* retried, and a request that fails a check causes none.
C5_AtMostOneCall ==
    \A w \in Workers :
        /\ calls[w] <= 1
        /\ resp[w] \in {InvalidFormat, Unauthorized, Unavailable} => calls[w] = 0
        /\ pc[w] \in {"Idle", "Received", "ContentTypeChecked", "TokenVerified",
                      "Parsed", "TitleResolved"} => calls[w] = 0

C5_Witness ==
    \E w \in Workers :
        /\ pc[w] = "Responded"
        /\ RemoteFailure(remote[w])
        /\ resp[w] = Failed
        /\ calls[w] = 1

-----------------------------------------------------------------------------
(* C6 *)

QuickArgs == [title |-> S_Quick_Meeting, duration |-> QUICK_DURATION, quick |-> TRUE]

\* C6: parse returns quick = true exactly for the texts that are "quick" once
\* trimmed and lower-cased, and then returns exactly {title: "Quick Meeting",
\* duration: 30, quick: true}.
C6_QuickShortcut ==
    parse_result # NoArgs =>
        /\ parse_result.quick <=> Spelled(parse_text, S_quick)
        /\ parse_result.quick => parse_result = QuickArgs

C6_Witness ==
    /\ parse_result = QuickArgs
    /\ parse_text = <<" ", "Q", "u", "i", "C", "K", " ">>

-----------------------------------------------------------------------------
(* C7 *)

\* C7: for a text that is neither blank nor "quick", the title is the whole
\* trimmed text iff the text has neither a title= match nor a duration= match;
\* with a duration= match and no title= match the title stays unset and the
\* duration is the matched integer; with a title= match the title is exactly
\* the quoted content.
C7_FallbackOnlyWithoutKeys ==
    LET t == parse_text
        hasTitle == TitleMatchStarts(t) # {}
        hasDuration == DurationMatchStarts(t) # {}
    IN  parse_result # NoArgs /\ ~Blank(t) /\ ~Spelled(t, S_quick) =>
            /\ parse_result.title = strip(t) <=> ~hasTitle /\ ~hasDuration
            /\ hasDuration /\ ~hasTitle =>
                  /\ parse_result.title = None
                  /\ parse_result.duration = int(duration_match(t))
            /\ hasTitle => parse_result.title = title_match(t)

-----------------------------------------------------------------------------
(* C8 *)

Stages ==
    <<"Received", "ContentTypeChecked", "TokenVerified", "Parsed", "TitleResolved",
      "ProviderInvoked", "Responded">>

Rank(stage) == CHOOSE i \in 1..Len(Stages) : Stages[i] = stage

\* one step of worker w on a POST /meet keeps the order of the stages
InOrder(w) ==
    pc'[w] # pc[w] /\ (req[w].route = "/meet" \/ req'[w].route = "/meet") =>
        \/ pc[w] = "Idle" /\ pc'[w] = "Received"
        \/ pc[w] = "Responded" /\ pc'[w] = "Idle"
        \/ /\ pc[w] \notin {"Idle", "Responded"}
           /\ pc'[w] # "Idle"
           /\ Rank(pc'[w]) = Rank(pc[w]) + 1
        \/ /\ pc[w] = "Received"
           /\ pc'[w] = "Responded"
           /\ resp'[w] = InvalidFormat
        \/ /\ pc[w] = "ContentTypeChecked"
           /\ pc'[w] = "Responded"
           /\ resp'[w] = Unauthorized
        \/ /\ pc[w] = "TokenVerified"
           /\ pc'[w] = "Responded"
           /\ resp'[w] = Unavailable

\* each stage's work is done on entering that stage and nowhere else
StageWork(w) ==
    /\ args'[w] # args[w] => pc'[w] \in {"Parsed", "TitleResolved", "Idle"}
    /\ calls'[w] # calls[w] => pc'[w] \in {"ProviderInvoked", "Idle"}
    /\ event'[w] # event[w] => pc'[w] \in {"ProviderInvoked", "Idle"}
    /\ resp'[w] # resp[w] => pc'[w] \in {"Responded", "Idle"}

\* C8: a request goes through Received, ContentTypeChecked, TokenVerified,
\* Parsed, TitleResolved, ProviderInvoked, Responded in this order; a failed
\* check goes straight to Responded with its error response, and nothing
\* runs for the request after Responded.
C8_StageOrder == [][\A w \in Workers : InOrder(w) /\ StageWork(w)]_vars

C8_Witness ==
    \E w \in Workers :
        /\ pc[w] = "Responded"
        /\ resp[w].response_type = "in_channel"
        /\ args[w].title = S_dev \o S_Meeting_suffix
        /\ calls[w] = 1

-----------------------------------------------------------------------------
(* C9 *)

\* C9: the request ids of any two adapter calls differ, also for calls made
\* by concurrent workers at the same or nearby clock instants.
C9_RequestIdsUnique ==
    \A v, w \in Workers :
        v # w /\ event[v] # NoEvent /\ event[w] # NoEvent =>
            event[v].requestId # event[w].requestId

-----------------------------------------------------------------------------
(* C10 *)

\* C10: every event handed to the provider ends strictly after it starts, on
\* the quick and on the scheduled path, for every duration the parser yields.
C10_EndAfterStart ==
    \A w \in Workers : event[w] # NoEvent => event[w].end > event[w].start

-----------------------------------------------------------------------------
(* C11 *)

\* the title the parser set for the request of worker w, if any
ParsedTitle(w) == parse_slash_command_args(strip(CommandText(w))).title

\* C11: the title handed to the provider is a non-empty string: the title the
\* parser set, unchanged, or else "{channelName} Meeting" for a channel name
\* that is present and not the direct-message sentinel, or else
\* "Meeting by {userName}".
C11_ResolvedTitle ==
    \A w \in Workers :
        event[w] # NoEvent =>
            /\ event[w].summary \notin {None, <<>>}
            /\ event[w].summary =
                  IF Truthy(ParsedTitle(w)) THEN ParsedTitle(w)
                  ELSE IF req[w].channel_name \notin {None, <<>>, S_directmessage}
                       THEN req[w].channel_name \o S_Meeting_suffix
                       ELSE S_Meeting_by \o get(req[w].user_name, S_Unknown_User)

\* the non-emptiness alone
C11_TitleNonEmpty ==
    \A w \in Workers : event[w] # NoEvent => event[w].summary \notin {None, <<>>}

====
